---- MODULE Spec2Model ----
(***************************************************************************)
(* Model of src/desktop/DesktopUtils.ts (class DesktopUtils):              *)
(*   - the single-instance lock protocol (makeSingleInstance,              *)
(*     singleInstanceLockOverridden) run by several application instances  *)
(*     that share one lock file and one OS single-instance lock;           *)
(*   - the mailto-handler registration of one instance, with the registry  *)
(*     script staging / execution / deletion protocol.                     *)
(***************************************************************************)
EXTENDS Integers, Sequences, FiniteSets, TLC

\* ------------------------------------------------------------------ bounds
NumInst == 3
\* instances that may be inside makeSingleInstance at the same time
MaxActive == 2
\* register/unregister calls made one after the other by one instance
MaxCalls == 2
\* entries left under <temp>/tutanota by earlier runs
MaxStale == 2
\* calls of getTutanotaTempPath / deleteTutanotaTempDir by one instance
MaxScratchOps == 3

Inst == 1..NumInst
\* app.getVersion(): the protocol only compares versions for equality; 1 and 2
\* stand for the versions "1.0" and "2.0"
Versions == {1, 2}

\* the lock file does not exist / nobody holds the OS lock
NoFile == 0
NoHolder == 0

\* delay(1500) in makeSingleInstance
GracePeriodMs == 1500

\* exit code of a helper process that was terminated by a signal (null)
NullCode == -1
ExitCodes == {0, 1, 2, NullCode}

Platforms == {"win32", "darwin", "linux", "freebsd"}

\* mkdirSync(directory, {recursive: true, mode: 0o700})
OwnerOnlyDirMode == 448
\* writeFile(filePath, contents, {mode: 0o400})
ReadOnlyFileMode == 256
\* fs.promises.mkdir(tmpPath, {recursive: true}): no mode given (0o777)
DefaultDirMode == 511
\* the entry of the listing of <temp>/tutanota that is this process's random
\* directory; the entries 1..MaxStale are left from earlier runs
OwnDir == 0
StaleEntries == 1..MaxStale
\* outcomes of readdirSync / rmSync: success or the code of the error thrown
FsCodes == {"ok", "ENOENT", "EACCES", "EBUSY"}
\* randomBytes(16): the names the constructor may draw
RandomNames == {"r1", "r2"}

VARIABLES
    lockFile,   \* content of <temp>/tutanota_desktop_lockfile, or NoFile
    osLock,     \* instance holding the OS single-instance lock, or NoHolder
    version,    \* version[i]: app.getVersion() of instance i
    st,         \* st[i]: position and locals of instance i's makeSingleInstance call
    platform,   \* process.platform of the registering instance
    scratch,    \* the directories and the staged script under <temp>/tutanota
    reg,        \* position and locals of the register/unregister call in progress
    log,        \* the OS calls issued by the call in progress, in order
    tmpOps      \* randomDirectoryName, and what the calls of getTutanotaTempPath
                \* and deleteTutanotaTempDir did so far

lockVars == <<lockFile, osLock, version, st>>
regVars == <<platform, scratch, reg, log, tmpOps>>
vars == <<lockFile, osLock, version, st, platform, scratch, reg, log, tmpOps>>

\* ---------------------------------------------------------------- helpers

\* app.requestSingleInstanceLock(): the new holder of the OS lock when
\* instance i requests it; the request is granted iff the result is i.
RequestSingleInstanceLock(i, holder) ==
    IF holder = NoHolder \/ holder = i THEN i ELSE holder

\* faulty variant: compares with = instead of !==
OverriddenSame(observed, own) == observed = own

\* `version !== this.electron.app.getVersion()`
Overridden(observed, own) == observed # own

InitInst ==
    [pc |-> "start",        \* start, req1, delay, read, write, decide, done (the
                            \* promise is settled), running, terminated
     w1ok |-> FALSE,        \* the step-1 writeFile succeeded
     granted1 |-> FALSE,    \* result of the first requestSingleInstanceLock()
     nReq |-> 0,            \* number of requestSingleInstanceLock() calls
     waitedMs |-> 0,        \* time spent in delay()
     req2At |-> 0,          \* value of waitedMs at the second request
     nRead |-> 0,           \* number of readFile calls on the lock file
     nWrite |-> 0,          \* number of writeFile calls on the lock file
     readOk |-> FALSE,      \* readFile resolved
     observed |-> NoFile,   \* content read after the wait
     write2Ok |-> FALSE,    \* the writeFile after the read resolved
     canStay |-> FALSE,     \* value of singleInstanceLockOverridden()
     decided |-> FALSE,     \* the .then(canStay => ...) callback ran
     quit |-> FALSE,        \* app.quit() was called
     result |-> "pending",  \* promise returned: pending, true, false, rejected
     heldAtReturn |-> FALSE,\* the instance held the OS lock when the promise settled
     notified |-> FALSE]    \* a 'second-instance' notification is pending

\* the primary instance is told about a refused request ('second-instance')
Notify(s, holder) ==
    IF holder \in Inst THEN [s EXCEPT ![holder].notified = TRUE] ELSE s

\* instances inside a makeSingleInstance call
Active(s) == {j \in Inst : s[j].pc \notin {"start", "running", "terminated"}}

\* Instances are interchangeable (any of them may start first) and so are the
\* version names: the versions are listed in non-decreasing order of the
\* instance number and the first instance has the first version.
InitLock ==
    /\ lockFile \in Versions \cup {NoFile}
    /\ osLock = NoHolder
    /\ version \in {v \in [Inst -> Versions] :
                        /\ \A a, b \in Inst : a < b => v[a] <= v[b]
                        /\ \A a \in Inst : (\A b \in Inst : a <= b) => v[a] = 1}
    /\ st = [i \in Inst |-> InitInst]

\* ------------------------------------------------ makeSingleInstance steps

\* faulty variant: the step-1 write without `.catch(noOp)`
WriteVersionNoCatch(i) ==
    /\ st[i].pc = "start"
    /\ Cardinality(Active(st)) < MaxActive
    /\ \E ok \in BOOLEAN :
        IF ok
        THEN /\ lockFile' = version[i]
             /\ st' = [st EXCEPT ![i] =
                          [@ EXCEPT !.pc = "req1", !.w1ok = TRUE, !.nWrite = @ + 1]]
        ELSE /\ lockFile' = lockFile
             /\ st' = [st EXCEPT ![i] =
                          [@ EXCEPT !.pc = "done", !.nWrite = @ + 1, !.result = "rejected"]]
    /\ UNCHANGED <<osLock, version, regVars>>

\* faulty variant: step 1 does not write the lock file at all
WriteVersionSkipped(i) ==
    /\ st[i].pc = "start"
    /\ Cardinality(Active(st)) < MaxActive
    /\ st' = [st EXCEPT ![i] = [@ EXCEPT !.pc = "req1", !.w1ok = TRUE, !.nWrite = @ + 1]]
    /\ UNCHANGED <<lockFile, osLock, version, regVars>>

\* writeFile(lockfilePath, getVersion()).catch(noOp)
WriteVersion(i) ==
    /\ st[i].pc = "start"
    /\ Cardinality(Active(st)) < MaxActive
    /\ \E ok \in BOOLEAN :
        /\ lockFile' = IF ok THEN version[i] ELSE lockFile
        /\ st' = [st EXCEPT ![i] =
                     [@ EXCEPT !.pc = "req1", !.w1ok = ok, !.nWrite = @ + 1]]
    /\ UNCHANGED <<osLock, version, regVars>>

\* faulty variant: goes on to the wait even when the lock was granted
FirstRequestAlwaysWait(i) ==
    /\ st[i].pc = "req1"
    /\ LET new == RequestSingleInstanceLock(i, osLock) IN
        /\ osLock' = new
        /\ st' = [Notify(st, IF new = i THEN NoHolder ELSE osLock) EXCEPT ![i] =
                     [@ EXCEPT !.pc = "delay", !.granted1 = (new = i), !.nReq = @ + 1]]
    /\ UNCHANGED <<lockFile, version, regVars>>

\* requestSingleInstanceLock() ? Promise.resolve(true) : delay(1500)...
FirstRequest(i) ==
    /\ st[i].pc = "req1"
    /\ LET new == RequestSingleInstanceLock(i, osLock) IN
        /\ osLock' = new
        /\ st' = [Notify(st, IF new = i THEN NoHolder ELSE osLock) EXCEPT ![i] =
                     IF new = i
                     THEN [@ EXCEPT !.pc = "done", !.granted1 = TRUE, !.nReq = @ + 1,
                                    !.result = "true", !.heldAtReturn = TRUE]
                     ELSE [@ EXCEPT !.pc = "delay", !.granted1 = FALSE, !.nReq = @ + 1]]
    /\ UNCHANGED <<lockFile, version, regVars>>

\* delay(1500) elapses
Delay(i) ==
    /\ st[i].pc = "delay"
    /\ st' = [st EXCEPT ![i] = [@ EXCEPT !.pc = "read", !.waitedMs = @ + GracePeriodMs]]
    /\ UNCHANGED <<lockFile, osLock, version, regVars>>

\* singleInstanceLockOverridden: readFile(lockfilePath); a rejection goes to
\* .catch(() => false)
ReadLockFile(i) ==
    /\ st[i].pc = "read"
    /\ \E ok \in BOOLEAN :
        LET good == ok /\ lockFile # NoFile IN
        st' = [st EXCEPT ![i] =
                  IF good
                  THEN [@ EXCEPT !.pc = "write", !.nRead = @ + 1, !.readOk = TRUE,
                                 !.observed = lockFile]
                  ELSE [@ EXCEPT !.pc = "decide", !.nRead = @ + 1, !.canStay = FALSE]]
    /\ UNCHANGED <<lockFile, osLock, version, regVars>>

\* faulty variant: the version is compared after the file was overwritten
OverwriteLockFileCompareAfter(i) ==
    /\ st[i].pc = "write"
    /\ \E ok \in BOOLEAN :
        /\ lockFile' = IF ok THEN version[i] ELSE lockFile
        /\ st' = [st EXCEPT ![i] =
                     [@ EXCEPT !.pc = "decide", !.nWrite = @ + 1, !.write2Ok = ok,
                               !.canStay = ok /\ Overridden(lockFile', version[i])]]
    /\ UNCHANGED <<osLock, version, regVars>>

\* singleInstanceLockOverridden: writeFile(own version).then(() => version !== own);
\* a rejection goes to .catch(() => false)
OverwriteLockFile(i) ==
    /\ st[i].pc = "write"
    /\ \E ok \in BOOLEAN :
        /\ lockFile' = IF ok THEN version[i] ELSE lockFile
        /\ st' = [st EXCEPT ![i] =
                     [@ EXCEPT !.pc = "decide", !.nWrite = @ + 1, !.write2Ok = ok,
                               !.canStay = ok /\ Overridden(st[i].observed, version[i])]]
    /\ UNCHANGED <<osLock, version, regVars>>

\* faulty variant: requests the lock again whatever canStay is
DecideAlwaysRetry(i) ==
    /\ st[i].pc = "decide"
    /\ LET new == RequestSingleInstanceLock(i, osLock) IN
        /\ osLock' = new
        /\ st' = [Notify(st, IF new = i THEN NoHolder ELSE osLock) EXCEPT ![i] =
                     [@ EXCEPT !.pc = "done", !.decided = TRUE, !.nReq = @ + 1,
                               !.req2At = st[i].waitedMs,
                               !.result = IF st[i].canStay THEN "true" ELSE "false",
                               !.heldAtReturn = (new = i)]]
    /\ UNCHANGED <<lockFile, version, regVars>>

\* .then(canStay => { if (canStay) requestSingleInstanceLock() else quit(); return canStay })
Decide(i) ==
    /\ st[i].pc = "decide"
    /\ IF st[i].canStay
       THEN LET new == RequestSingleInstanceLock(i, osLock) IN
            /\ osLock' = new
            /\ st' = [Notify(st, IF new = i THEN NoHolder ELSE osLock) EXCEPT ![i] =
                         [@ EXCEPT !.pc = "done", !.decided = TRUE, !.nReq = @ + 1,
                                   !.req2At = st[i].waitedMs, !.result = "true",
                                   !.heldAtReturn = (new = i)]]
       ELSE /\ osLock' = osLock
            /\ st' = [st EXCEPT ![i] =
                         [@ EXCEPT !.pc = "done", !.decided = TRUE, !.quit = TRUE,
                                   !.result = "false", !.heldAtReturn = (osLock = i)]]
    /\ UNCHANGED <<lockFile, version, regVars>>

\* the call is over: after `false` app.quit() ends the process, after `true`
\* the application goes on running; the locals of the call are gone
CallOver(i) ==
    /\ st[i].pc = "done"
    /\ st' = [st EXCEPT ![i] =
                 [InitInst EXCEPT !.pc = IF st[i].result = "true" THEN "running"
                                                                 ELSE "terminated",
                                  !.notified = st[i].notified]]
    /\ osLock' = IF osLock = i /\ st[i].result # "true" THEN NoHolder ELSE osLock
    /\ UNCHANGED <<lockFile, version, regVars>>

\* The already-running primary instance reacts to 'second-instance': it
\* compares the lock file with its own version; if they differ it writes its
\* own version back, releases the OS lock and terminates.
SecondInstanceReact(h) ==
    /\ st[h].pc = "running"
    /\ osLock = h
    /\ st[h].notified
    /\ IF lockFile # NoFile /\ Overridden(lockFile, version[h])
       THEN /\ lockFile' = version[h]
            /\ osLock' = NoHolder
            /\ st' = [st EXCEPT ![h] =
                         [InitInst EXCEPT !.pc = "terminated"]]
       ELSE /\ st' = [st EXCEPT ![h].notified = FALSE]
            /\ UNCHANGED <<lockFile, osLock>>
    /\ UNCHANGED <<version, regVars>>

NextLock ==
    \E i \in Inst :
        \/ WriteVersion(i)
        \/ FirstRequest(i)
        \/ Delay(i)
        \/ ReadLockFile(i)
        \/ OverwriteLockFile(i)
        \/ Decide(i)
        \/ CallOver(i)
        \/ SecondInstanceReact(i)

\* The lock override scenario: the first instance starts alone and becomes the
\* primary instance; then a second instance runs makeSingleInstance while
\* nothing else happens (no other launch, no reaction of the primary).
Holder == CHOOSE i \in Inst : \A j \in Inst : i <= j
Starter == Holder + 1

HolderStartup ==
    /\ st[Starter].pc = "start"
    /\ \/ WriteVersion(Holder)
       \/ FirstRequest(Holder)
       \/ CallOver(Holder)

StarterStartup ==
    /\ st[Holder].pc = "running"
    /\ \/ WriteVersion(Starter)
       \/ FirstRequest(Starter)
       \/ Delay(Starter)
       \/ ReadLockFile(Starter)
       \/ OverwriteLockFile(Starter)
       \/ Decide(Starter)
       \/ CallOver(Starter)

NextOverride == HolderStartup \/ StarterStartup

\* version hand-off: the holder reacts to the notification while the starter
\* is in its grace period
HolderReact ==
    /\ st[Starter].pc = "delay"
    /\ SecondInstanceReact(Holder)

\* the starter goes on after the holder has terminated
StarterAfterHandoff ==
    /\ st[Holder].pc = "terminated"
    /\ \/ Delay(Starter)
       \/ ReadLockFile(Starter)
       \/ OverwriteLockFile(Starter)
       \/ Decide(Starter)
       \/ CallOver(Starter)

NextHandoff == NextOverride \/ HolderReact \/ StarterAfterHandoff

\* ------------------------------------------- mailto handler registration

InitCall ==
    [pc |-> "idle",         \* idle, mkdir, writeFile, spawn, running, imported,
                            \* opening, done, hung
     op |-> "none",         \* register / unregister
     calls |-> 0,           \* calls started so far
     spawned |-> FALSE,     \* spawn("reg.exe", ["import", file]) was called
     fileAtSpawn |-> FALSE, \* the staged file existed when spawn was called
     exited |-> FALSE,      \* the 'exit' listener ran
     exitCode |-> 0,        \* code passed to the 'exit' listener
     unlinked |-> FALSE,    \* unlinkSync(file) returned
     spawnError |-> FALSE,  \* the child emitted 'error' (it could not be started)
     fsCalls |-> 0,         \* file-system calls made by the call
     execRes |-> "none",    \* _executeRegistryScript: none, pending, resolved, rejected
     osRet |-> TRUE,        \* value returned by set/removeAsDefaultProtocolClient
     openRes |-> "none",    \* openExternal: none, pending, resolved, rejected
     result |-> "none",     \* the call's promise: none, pending, resolved, rejected
     error |-> <<"none", "">>]  \* the error the call rejected with: message, argument

NoSweep ==
    [calls |-> 0,           \* calls of deleteTutanotaTempDir so far
     listCode |-> "ok",     \* outcome of readdirSync in the last call
     listing |-> {},        \* entries returned by readdirSync
     attempted |-> {},      \* entries rmSync was called on
     removed |-> {},        \* entries rmSync removed
     codes |-> {},          \* codes of the errors thrown by rmSync
     raised |-> "none"]     \* code of the error the call threw, or none

InitReg ==
    /\ platform \in Platforms
    /\ \E top \in BOOLEAN, old \in SUBSET StaleEntries :
          scratch = [top |-> top,          \* <temp>/tutanota exists
                     stale |-> IF top THEN old ELSE {},
                     rand |-> FALSE,       \* <temp>/tutanota/<random> exists
                     randMode |-> 0,       \* mode it was created with
                     regDir |-> FALSE,     \* <random>/reg exists
                     file |-> FALSE,       \* the staged script exists
                     fileMode |-> 0]       \* mode it was created with
    /\ reg = InitCall
    /\ log = <<>>
    /\ \E n \in RandomNames :
          tmpOps = [name |-> n,            \* this.randomDirectoryName
                    ops |-> 0,             \* calls made so far
                    paths |-> {},          \* paths returned by getTutanotaTempPath
                    created |-> 0,         \* times the random directory was created
                    sweep |-> NoSweep]

Init == InitLock /\ InitReg

\* the lock protocol does not depend on the platform nor on the scratch area
InitLockOnly ==
    /\ Init
    /\ platform = "linux"
    /\ ~scratch.top
    /\ tmpOps.name = "r1"

\* the registration does not depend on the lock file
InitRegOnly ==
    /\ Init
    /\ lockFile = NoFile
    /\ \A i \in Inst : version[i] = 1

\* the scratch-area operations do not depend on the platform
InitScratch == InitRegOnly /\ platform = "linux"

Rejected(r, e) == [r EXCEPT !.pc = "done", !.result = "rejected", !.error = <<e, "">>]

\* path.join(app.getPath("temp"), this.topLevelTempDir, this.randomDirectoryName)
TempPath(name) == <<"temp", "tutanota", name>>

\* faulty variant: the directory is created with the default mode
MkdirSyncRandomDefaultMode(sc, ok) ==
    IF ok
    THEN [sc EXCEPT !.top = TRUE, !.rand = TRUE,
                    !.randMode = IF sc.rand THEN @ ELSE DefaultDirMode]
    ELSE sc

\* mkdirSync(directory, {recursive: true, mode: 0o700}): the missing
\* directories are created with the mode, existing ones are left as they are
MkdirSyncRandom(sc, ok) ==
    IF ok
    THEN [sc EXCEPT !.top = TRUE, !.rand = TRUE,
                    !.randMode = IF sc.rand THEN @ ELSE OwnerOnlyDirMode]
    ELSE sc

\* getTutanotaTempPath: the path returned, and whether mkdirSync created the
\* directory
TempPathCalled(t, sc, ok) ==
    IF ok
    THEN [t EXCEPT !.paths = @ \cup {TempPath(t.name)},
                   !.created = IF sc.rand THEN @ ELSE @ + 1]
    ELSE t

\* the part of _executeRegistryScript / _writeToDisk that runs before the
\* first await: getTutanotaTempPath() calls mkdirSync (which may throw), then
\* fs.promises.mkdir(tmpPath) is started
StartExecute(r, mkdirSyncOk) ==
    IF mkdirSyncOk
    THEN [r EXCEPT !.pc = "mkdir", !.execRes = "pending", !.fsCalls = @ + 1]
    ELSE Rejected([r EXCEPT !.execRes = "rejected", !.fsCalls = @ + 1], "mkdirSync")

\* faulty variant: linux is handled like darwin
BranchLinuxAsDarwin(p) ==
    CASE p = "win32" -> "win32"
      [] p = "darwin" -> "darwin"
      [] p = "linux" -> "darwin"
      [] OTHER -> "default"

\* switch (process.platform): the case that is taken
Branch(p) ==
    CASE p = "win32" -> "win32"
      [] p = "darwin" -> "darwin"
      [] p = "linux" -> "linux"
      [] OTHER -> "default"

\* faulty variant: the result of the OS call is not looked at
RefusedByOsNever(ret) == FALSE

\* `if (!didRegister)` / `if (!didUnregister)`
RefusedByOs(ret) == ~ret

\* registerAsMailtoHandler / unregisterAsMailtoHandler, up to the first await
\* (or to the end on darwin, linux and unknown platforms)
CallHandler(op) ==
    /\ reg.pc \in {"idle", "done"}
    /\ reg.calls < MaxCalls
    /\ LET r0 == [InitCall EXCEPT !.op = op, !.calls = reg.calls + 1, !.result = "pending"]
           osCall == IF op = "register" THEN "setAsDefaultProtocolClient"
                                        ELSE "removeAsDefaultProtocolClient"
       IN
       CASE Branch(platform) = "win32" ->
              \E mkdirSyncOk, ret \in BOOLEAN :
                 /\ reg' = StartExecute(
                              IF op = "unregister" THEN [r0 EXCEPT !.osRet = ret] ELSE r0,
                              mkdirSyncOk)
                 /\ log' = IF op = "unregister" THEN <<osCall>> ELSE <<>>
                 /\ scratch' = MkdirSyncRandom(scratch, mkdirSyncOk)
                 /\ tmpOps' = TempPathCalled(tmpOps, scratch, mkdirSyncOk)
         [] Branch(platform) = "darwin" ->
              \E ret \in BOOLEAN :
                 /\ reg' = IF ~RefusedByOs(ret)
                           THEN [r0 EXCEPT !.pc = "done", !.osRet = ret, !.result = "resolved"]
                           ELSE Rejected([r0 EXCEPT !.osRet = ret],
                                         IF op = "register"
                                         THEN "Could not register as mailto handler"
                                         ELSE "Could not unregister as mailto handler")
                 /\ log' = <<osCall>>
                 /\ UNCHANGED <<scratch, tmpOps>>
         [] Branch(platform) = "linux" ->
              /\ reg' = Rejected(r0, "Registering protocols on Linux does not work")
              /\ log' = <<>>
              /\ UNCHANGED <<scratch, tmpOps>>
         [] OTHER ->
              /\ reg' = [r0 EXCEPT !.pc = "done", !.result = "rejected",
                                    !.error = <<"Invalid process.platform: ", platform>>]
              /\ log' = <<>>
              /\ UNCHANGED <<scratch, tmpOps>>
    /\ UNCHANGED <<lockVars, platform>>

\* _writeToDisk: await fs.promises.mkdir(tmpPath, {recursive: true})
MkdirReg ==
    /\ reg.pc = "mkdir"
    /\ \E ok \in BOOLEAN :
        IF ok
        THEN /\ scratch' = [scratch EXCEPT !.top = TRUE, !.rand = TRUE, !.regDir = TRUE,
                                            !.randMode = IF scratch.rand THEN @
                                                         ELSE DefaultDirMode]
             /\ reg' = [reg EXCEPT !.pc = "writeFile", !.fsCalls = @ + 1]
        ELSE /\ scratch' = scratch
             /\ reg' = Rejected([reg EXCEPT !.execRes = "rejected", !.fsCalls = @ + 1],
                                "mkdir")
    /\ UNCHANGED <<lockVars, tmpOps, platform, log>>

\* _writeToDisk: await fs.promises.writeFile(filePath, contents, {mode: 0o400})
WriteScript ==
    /\ reg.pc = "writeFile"
    /\ \E ok \in BOOLEAN :
        IF ok /\ scratch.regDir
        THEN /\ scratch' = [scratch EXCEPT !.file = TRUE, !.fileMode = ReadOnlyFileMode]
             /\ reg' = [reg EXCEPT !.pc = "spawn", !.fsCalls = @ + 1]
        ELSE /\ scratch' = scratch
             /\ reg' = Rejected([reg EXCEPT !.execRes = "rejected", !.fsCalls = @ + 1],
                                "writeFile")
    /\ UNCHANGED <<lockVars, tmpOps, platform, log>>

\* spawn("reg.exe", ["import", file], ...).on("exit", ...)
SpawnHelper ==
    /\ reg.pc = "spawn"
    /\ reg' = [reg EXCEPT !.pc = "running", !.spawned = TRUE, !.fileAtSpawn = scratch.file]
    /\ log' = Append(log, "spawn")
    /\ UNCHANGED <<lockVars, tmpOps, platform, scratch>>

\* faulty variant: the file is deleted only when the helper succeeded
OnExitUnlinkOnSuccess(code, unlinkOk) ==
    /\ reg.pc = "running"
    /\ IF code # 0
       THEN /\ scratch' = scratch
            /\ reg' = Rejected([reg EXCEPT !.exited = TRUE, !.exitCode = code,
                                           !.execRes = "rejected"],
                               "couldn't execute registry script")
       ELSE IF unlinkOk /\ scratch.file
       THEN /\ scratch' = [scratch EXCEPT !.file = FALSE]
            /\ reg' = [reg EXCEPT !.exited = TRUE, !.exitCode = code, !.unlinked = TRUE,
                                  !.pc = "imported", !.execRes = "resolved"]
       ELSE /\ scratch' = scratch
            /\ reg' = [reg EXCEPT !.pc = "hung", !.exited = TRUE, !.exitCode = code]
    /\ UNCHANGED <<lockVars, tmpOps, platform, log>>

\* the 'exit' listener: unlinkSync(file); code === 0 ? resolve : reject.
\* When unlinkSync throws, the listener is left before the promise is settled.
OnExit(code, unlinkOk) ==
    /\ reg.pc = "running"
    /\ IF unlinkOk /\ scratch.file
       THEN /\ scratch' = [scratch EXCEPT !.file = FALSE]
            /\ reg' = IF code = 0
                      THEN [reg EXCEPT !.exited = TRUE, !.fsCalls = @ + 1, !.exitCode = code, !.unlinked = TRUE,
                                       !.pc = "imported", !.execRes = "resolved"]
                      ELSE Rejected([reg EXCEPT !.exited = TRUE, !.fsCalls = @ + 1, !.exitCode = code,
                                                !.unlinked = TRUE, !.execRes = "rejected"],
                                    "couldn't execute registry script")
       ELSE /\ scratch' = scratch
            /\ reg' = [reg EXCEPT !.pc = "hung", !.exited = TRUE, !.fsCalls = @ + 1, !.exitCode = code]
    /\ UNCHANGED <<lockVars, tmpOps, platform, log>>

\* the helper process exits with a code, or is killed by a signal
HelperExit == \E code \in ExitCodes, unlinkOk \in BOOLEAN : OnExit(code, unlinkOk)

\* the helper could not be started: the child emits 'error' and no 'exit';
\* there is no 'error' listener and the promise is never settled
HelperSpawnError ==
    /\ reg.pc = "running"
    /\ reg' = [reg EXCEPT !.pc = "hung", !.spawnError = TRUE]
    /\ UNCHANGED <<lockVars, tmpOps, platform, scratch, log>>

\* after `await this._executeRegistryScript(...)`: register calls
\* setAsDefaultProtocolClient("mailto") and drops its result; both then call
\* _openDefaultAppsSettings()
AfterImport ==
    /\ reg.pc = "imported"
    /\ IF reg.op = "register"
       THEN \E ret \in BOOLEAN :
               /\ reg' = [reg EXCEPT !.pc = "opening", !.osRet = ret, !.openRes = "pending"]
               /\ log' = log \o <<"setAsDefaultProtocolClient", "openExternal">>
       ELSE /\ reg' = [reg EXCEPT !.pc = "opening", !.openRes = "pending"]
            /\ log' = Append(log, "openExternal")
    /\ UNCHANGED <<lockVars, tmpOps, platform, scratch>>

\* faulty variant: _openDefaultAppsSettings without the try/catch
OpenSettledNoCatch(ok) ==
    /\ reg.pc = "opening"
    /\ reg' = IF ok
              THEN [reg EXCEPT !.pc = "done", !.openRes = "resolved", !.result = "resolved"]
              ELSE Rejected([reg EXCEPT !.openRes = "rejected"], "openExternal")
    /\ UNCHANGED <<lockVars, tmpOps, platform, scratch, log>>

\* _openDefaultAppsSettings: try { await openExternal(...) } catch (e) { console.error }
OpenSettled(ok) ==
    /\ reg.pc = "opening"
    /\ reg' = [reg EXCEPT !.pc = "done", !.result = "resolved",
                          !.openRes = IF ok THEN "resolved" ELSE "rejected"]
    /\ UNCHANGED <<lockVars, tmpOps, platform, scratch, log>>

OpenDefaultAppsSettings == \E ok \in BOOLEAN : OpenSettled(ok)

\* ------------------------------------------------------- scratch area

\* getTutanotaTempPath(), called by a component of the instance
GetTutanotaTempPath ==
    /\ reg.pc \in {"idle", "done"}
    /\ tmpOps.ops < MaxScratchOps
    /\ \E ok \in BOOLEAN :
        /\ scratch' = MkdirSyncRandom(scratch, ok)
        /\ tmpOps' = [TempPathCalled(tmpOps, scratch, ok) EXCEPT !.ops = @ + 1]
    /\ UNCHANGED <<lockVars, platform, reg, log>>

\* faulty variant: the outer catch swallows every error
RethrownNever(code) == FALSE

\* outer catch: `if (e.code !== "ENOENT") throw e`; an error rethrown by the
\* inner catch passes through it as well
Rethrown(code) == code # "ENOENT"

\* faulty variant: only ENOENT is ignored
SwallowedOnlyEnoent(code) == code = "ENOENT"

\* `if (e.code !== "ENOENT" && e.code !== "EACCES") throw e`
Swallowed(code) == code \in {"ENOENT", "EACCES"}

\* readdirSync(topLvlTmpDir): the entries in the order they are listed
RECURSIVE Listing(_)
Listing(entries) ==
    IF entries = {} THEN <<>>
    ELSE LET e == CHOOSE x \in entries : \A y \in entries : x <= y
         IN <<e>> \o Listing(entries \ {e})

\* path.join(app.getPath("temp"), this.topLevelTempDir)
TopLvlTmpDir == <<"temp", "tutanota">>

\* faulty variant: the lock file is put into the instance's scratch directory
GetLockFilePathInTempPath(t) == TempPath(t.name) \o <<"tutanota_desktop_lockfile">>

\* getLockFilePath(): a file directly in the root temp directory, whatever
\* the instance t
GetLockFilePath(t) == <<"temp", "tutanota_desktop_lockfile">>

\* tmpSubPath = path.join(topLvlTmpDir, tmp) for the entry e of the listing
TmpSubPath(e, t) == TopLvlTmpDir \o <<IF e = OwnDir THEN t.name ELSE ToString(e)>>

\* the path q is p or lies below p
IsPrefix(p, q) == Len(p) <= Len(q) /\ SubSeq(q, 1, Len(p)) = p

\* rmSync(tmpSubPath, {recursive: true}) removed entry e
Removed(sc, e) ==
    IF e = OwnDir
    THEN [sc EXCEPT !.rand = FALSE, !.regDir = FALSE, !.file = FALSE]
    ELSE [sc EXCEPT !.stale = @ \ {e}]

\* the for loop of deleteTutanotaTempDir over the rest of the listing; out[e]
\* is the outcome of rmSync on entry e (ENOENT: the entry has gone meanwhile)
RECURSIVE RmEach(_, _, _, _)
RmEach(list, out, sc, sw) ==
    IF list = <<>> THEN [scratch |-> sc, sweep |-> sw]
    ELSE LET e == Head(list)
             code == out[e]
             sw1 == [sw EXCEPT !.attempted = @ \cup {e},
                               !.removed = IF code = "ok" THEN @ \cup {e} ELSE @,
                               !.codes = IF code = "ok" THEN @ ELSE @ \cup {code}]
             sc1 == IF code \in {"ok", "ENOENT"} THEN Removed(sc, e) ELSE sc
         IN IF code = "ok" \/ Swallowed(code)
            THEN RmEach(Tail(list), out, sc1, sw1)
            ELSE [scratch |-> sc1,
                  sweep |-> [sw1 EXCEPT !.raised = IF Rethrown(code) THEN code
                                                                     ELSE "none"]]

\* the entries directly under <temp>/tutanota
Entries(sc) == sc.stale \cup (IF sc.rand THEN {OwnDir} ELSE {})

\* deleteTutanotaTempDir(): readdirSync, then rmSync on every entry; the outer
\* catch ignores ENOENT only
DeleteTutanotaTempDir ==
    /\ reg.pc \in {"idle", "done"}
    /\ tmpOps.ops < MaxScratchOps
    /\ \E listCode \in FsCodes, out \in [Entries(scratch) -> FsCodes] :
        /\ (~scratch.top) => listCode = "ENOENT"
        /\ scratch.top => listCode # "ENOENT"
        /\ LET sw0 == [NoSweep EXCEPT !.calls = tmpOps.sweep.calls + 1,
                                      !.listCode = listCode]
               res == IF listCode = "ok"
                      THEN RmEach(Listing(Entries(scratch)), out, scratch,
                                  [sw0 EXCEPT !.listing = Entries(scratch)])
                      ELSE [scratch |-> scratch,
                            sweep |-> [sw0 EXCEPT !.raised =
                                          IF Rethrown(listCode) THEN listCode
                                                                ELSE "none"]]
           IN /\ scratch' = res.scratch
              /\ tmpOps' = [tmpOps EXCEPT !.ops = @ + 1, !.sweep = res.sweep]
              /\ lockFile' = IF \E e \in res.sweep.removed :
                                    IsPrefix(TmpSubPath(e, tmpOps), GetLockFilePath(tmpOps))
                              THEN NoFile
                              ELSE lockFile
    /\ UNCHANGED <<osLock, version, st, platform, reg, log>>

NextScratch ==
    \/ GetTutanotaTempPath
    \/ DeleteTutanotaTempDir

NextReg ==
    \/ CallHandler("register")
    \/ CallHandler("unregister")
    \/ MkdirReg
    \/ WriteScript
    \/ SpawnHelper
    \/ HelperExit
    \/ HelperSpawnError
    \/ AfterImport
    \/ OpenDefaultAppsSettings

SpecLock == InitLockOnly /\ [][NextLock]_vars

SpecOverride == InitLockOnly /\ [][NextOverride]_vars
SpecHandoff == InitLockOnly /\ [][NextHandoff]_vars

SpecReg == InitRegOnly /\ [][NextReg]_vars

SpecScratch == InitScratch /\ [][NextScratch]_vars

\* all operations of the layer: a holder and a starter run makeSingleInstance,
\* then the starter's process registers / unregisters or uses and sweeps the
\* scratch area
InitFrame ==
    /\ Init
    /\ platform = "win32"
    /\ scratch.top /\ scratch.stale = StaleEntries
    /\ tmpOps.name = "r1"

StartupOver ==
    /\ st[Holder].pc = "running"
    /\ st[Starter].pc \in {"running", "terminated"}

FrameReg == StartupOver /\ tmpOps.ops = 0 /\ NextReg

FrameScratch == StartupOver /\ reg.calls = 0 /\ NextScratch

NextFrame == NextOverride \/ FrameReg \/ FrameScratch

SpecFrame == InitFrame /\ [][NextFrame]_vars

\* ------------------------------------------------------------------ claims

\* an instance whose makeSingleInstance call is over and whose first lock
\* request was refused
Refused(i) == st[i].pc = "done" /\ st[i].nReq >= 1 /\ ~st[i].granted1

\* C1 (as claimed): after a refused first request, canStay is true if and
\* only if the content read after the wait differs from the own version.
C1_AsClaimed ==
    \A i \in Inst :
        (Refused(i) /\ st[i].readOk) =>
            (st[i].canStay <=> st[i].observed # version[i])

\* C1 (amended): after a refused first request, canStay is true if and only
\* if the read succeeded, the content read differs from the own version and
\* the overwrite succeeded; when the content equals the own version canStay is
\* false; when canStay is false app.quit() is called and no second request is
\* made; app.quit() is never called when canStay is true.
C1_CanStayDecision ==
    \A i \in Inst :
        Refused(i) =>
            /\ st[i].canStay <=>
                  (st[i].readOk /\ st[i].write2Ok /\ st[i].observed # version[i])
            /\ (st[i].readOk /\ st[i].observed = version[i]) => ~st[i].canStay
            /\ ~st[i].canStay => (st[i].quit /\ st[i].nReq = 1 /\ st[i].result = "false")
            /\ st[i].canStay => (~st[i].quit /\ st[i].result = "true")

C1_Witness ==
    \E i \in Inst :
        /\ Refused(i) /\ st[i].canStay /\ st[i].observed # version[i]
        /\ st[i].nReq = 2 /\ ~st[i].quit

\* C2 (as claimed): makeSingleInstance returns true exactly when the process
\* holds the OS single-instance lock at return.
C2_AsClaimed ==
    \A i \in Inst :
        st[i].pc = "done" =>
            /\ st[i].result = "true" => st[i].heldAtReturn
            /\ st[i].result = "false" => ~st[i].heldAtReturn

\* the scenario of C3 (under SpecOverride): a primary instance of another
\* version holds the OS lock, the starting instance was refused the lock and
\* has finished its call; nothing else wrote the lock file
C3_Scenario ==
    /\ Refused(Starter)
    /\ osLock = Holder
    /\ version[Holder] # version[Starter]

\* C3 (as claimed): in the lock override scenario the starting instance
\* concludes canStay = true.
C3_AsClaimed == C3_Scenario => st[Starter].canStay

\* C3 (amended): in the lock override scenario the starting instance concludes
\* canStay = false whenever its own step-1 write succeeded (it reads back its
\* own version); it can conclude canStay = true only when its step-1 write
\* failed and the file was read and overwritten successfully after the wait.
C3_OverrideScenario ==
    C3_Scenario =>
        /\ st[Starter].w1ok =>
              /\ ~st[Starter].canStay /\ st[Starter].result = "false" /\ st[Starter].quit
              /\ st[Starter].readOk => st[Starter].observed = version[Starter]
        /\ st[Starter].canStay =>
              /\ ~st[Starter].w1ok /\ st[Starter].readOk /\ st[Starter].write2Ok
              /\ st[Starter].observed # version[Starter]

C3_Witness ==
    /\ C3_Scenario
    /\ st[Starter].w1ok /\ st[Starter].readOk /\ st[Starter].write2Ok
    /\ st[Starter].observed = version[Starter] /\ ~st[Starter].canStay

\* C4: lock-file I/O errors never make makeSingleInstance reject; the OS lock
\* is requested although the step-1 write failed; a failed read or overwrite
\* after the wait gives canStay = false; and when the lock file can be neither
\* written nor read the call resolves to true iff the first request was granted.
C4_IoErrorsSwallowed ==
    \A i \in Inst :
        /\ st[i].result # "rejected"
        /\ st[i].pc = "done" => st[i].result \in {"true", "false"}
        /\ (st[i].pc \in {"delay", "read", "write", "decide", "done"}) => st[i].nReq >= 1
        /\ (Refused(i) /\ (~st[i].readOk \/ ~st[i].write2Ok)) =>
               (~st[i].canStay /\ st[i].result = "false")
        /\ (st[i].pc = "done" /\ ~st[i].w1ok /\ ~st[i].write2Ok) =>
               (st[i].result = "true" <=> st[i].granted1)

C4_Witness ==
    \E i \in Inst :
        /\ Refused(i) /\ ~st[i].w1ok /\ st[i].nRead = 1 /\ ~st[i].readOk
        /\ st[i].result = "false"

\* C5: when the first request is granted the call returns true at once: no
\* wait, no read and no rewrite of the lock file after the step-1 write, no
\* second request and no app.quit().
C5_GrantedReturnsAtOnce ==
    \A i \in Inst :
        st[i].granted1 =>
            /\ st[i].pc = "done" /\ st[i].result = "true"
            /\ st[i].waitedMs = 0
            /\ st[i].nRead = 0 /\ st[i].nWrite = 1
            /\ st[i].nReq = 1
            /\ ~st[i].quit

C5_Witness ==
    \E i \in Inst :
        /\ st[i].granted1 /\ st[i].pc = "done" /\ st[i].result = "true"
        /\ osLock = i

\* C6: one call requests the OS lock at most twice; the second request is
\* made only after the 1500 ms wait and only when canStay is true; the lock
\* file is read at most once.
C6_AtMostOneRetry ==
    \A i \in Inst :
        /\ st[i].nReq <= 2
        /\ st[i].nRead <= 1
        /\ st[i].nReq = 2 =>
              /\ ~st[i].granted1
              /\ st[i].waitedMs = GracePeriodMs
              /\ st[i].req2At = GracePeriodMs
              /\ st[i].canStay

C6_Witness ==
    \E i \in Inst : st[i].nReq = 2 /\ st[i].nRead = 1 /\ st[i].pc = "done"

\* C7: when _executeRegistryScript has settled, the staged file does not
\* exist; if the helper was spawned, the file existed at the spawn and was
\* unlinked before the promise settled, whether it resolved or rejected.
C7_StagedFileLifetime ==
    /\ reg.execRes \in {"resolved", "rejected"} =>
          /\ ~scratch.file
          /\ reg.spawned => (reg.fileAtSpawn /\ reg.exited /\ reg.unlinked)
    /\ reg.spawned => reg.fileAtSpawn

C7_Witness ==
    /\ reg.spawned /\ reg.exited /\ reg.exitCode # 0
    /\ reg.execRes = "rejected" /\ ~scratch.file

\* C8 (as claimed): once the helper has exited, _executeRegistryScript
\* resolves if the exit code is 0 and rejects with the registry-script error
\* for any other code and for a termination by a signal.
C8_AsClaimed ==
    reg.exited =>
        /\ reg.exitCode = 0 => reg.execRes = "resolved"
        /\ reg.exitCode # 0 =>
              (reg.execRes = "rejected"
               /\ reg.error = <<"couldn't execute registry script", "">>)

\* C9 (as claimed): when the OS call set/removeAsDefaultProtocolClient reports
\* failure, the register/unregister call rejects, on win32 as on darwin.
C9_AsClaimed ==
    (reg.pc = "done" /\ ~reg.osRet) => reg.result = "rejected"

\* C10: on win32, once the registry script import has succeeded, the call
\* resolves whether openExternal resolves or rejects.
C10_SettingsPageNeverFails ==
    (platform = "win32" /\ reg.execRes = "resolved" /\ reg.pc = "done") =>
        (reg.result = "resolved" /\ reg.openRes \in {"resolved", "rejected"})

C10_Witness ==
    /\ platform = "win32" /\ reg.execRes = "resolved" /\ reg.pc = "done"
    /\ reg.openRes = "rejected" /\ reg.result = "resolved"

\* the call made no file-system call, spawned no process and left the scratch
\* area as it was
TouchedNothing ==
    /\ reg.fsCalls = 0
    /\ ~reg.spawned
    /\ ~scratch.rand /\ ~scratch.regDir /\ ~scratch.file
    /\ tmpOps.created = 0

\* C11: on linux register/unregister always reject, without any file-system
\* call, without spawning a process and without any OS protocol-handler call;
\* on a platform other than win32, darwin and linux they reject likewise and
\* the error names the platform.
C11_UnsupportedPlatforms ==
    (platform \notin {"win32", "darwin"}) =>
        /\ reg.pc \in {"idle", "done"}
        /\ TouchedNothing
        /\ log = <<>>
        /\ reg.pc = "done" =>
              /\ reg.result = "rejected"
              /\ platform = "linux" =>
                    reg.error = <<"Registering protocols on Linux does not work", "">>
              /\ platform # "linux" =>
                    reg.error = <<"Invalid process.platform: ", platform>>

C11_Witness ==
    /\ platform = "linux" /\ reg.pc = "done" /\ reg.op = "unregister"
    /\ reg.result = "rejected" /\ log = <<>>

\* C12: on darwin register (unregister) issues exactly one OS call,
\* setAsDefaultProtocolClient (removeAsDefaultProtocolClient), rejects if and
\* only if that call returns false, stages no file, spawns no process and
\* does not open the settings page.
C12_DarwinSingleOsCall ==
    platform = "darwin" =>
        /\ reg.pc \in {"idle", "done"}
        /\ TouchedNothing
        /\ reg.openRes = "none"
        /\ reg.pc = "done" =>
              /\ log = <<IF reg.op = "register" THEN "setAsDefaultProtocolClient"
                                                ELSE "removeAsDefaultProtocolClient">>
              /\ reg.result = "rejected" <=> ~reg.osRet
              /\ reg.result = "resolved" <=> reg.osRet

C12_Witness ==
    /\ platform = "darwin" /\ reg.pc = "done" /\ reg.op = "register"
    /\ ~reg.osRet /\ reg.result = "rejected"
    /\ reg.error = <<"Could not register as mailto handler", "">>

\* C13: deleteTutanotaTempDir does not raise when removing entries fails with
\* ENOENT or EACCES only, and it has then called rmSync on every entry of the
\* listing; when <temp>/tutanota does not exist it completes without error
\* and removes nothing.
C13_SweepTolerant ==
    LET sw == tmpOps.sweep IN
    sw.calls > 0 =>
        /\ (sw.listCode = "ok" /\ sw.codes \subseteq {"ENOENT", "EACCES"}) =>
              /\ sw.raised = "none"
              /\ sw.attempted = sw.listing
              /\ sw.removed \subseteq sw.attempted
              /\ \A e \in sw.removed \ {OwnDir} : e \notin scratch.stale
        /\ sw.listCode = "ENOENT" =>
              /\ sw.raised = "none"
              /\ sw.attempted = {} /\ sw.removed = {}

C13_Witness ==
    LET sw == tmpOps.sweep IN
    /\ sw.calls > 0 /\ sw.listCode = "ok"
    /\ sw.codes = {"ENOENT", "EACCES"}
    /\ sw.removed # {} /\ sw.attempted = sw.listing /\ sw.raised = "none"

\* C14 (as claimed): every call of getTutanotaTempPath returns the identical
\* path and the scratch directory is created at most once.
C14_AsClaimed ==
    /\ Cardinality(tmpOps.paths) <= 1
    /\ tmpOps.created <= 1

\* C15 (as claimed): no call of deleteTutanotaTempDir removes the random
\* subdirectory the same process has created through getTutanotaTempPath.
C15_AsClaimed == OwnDir \notin tmpOps.sweep.removed

\* permission bits of a mode
GroupOtherBits(mode) == mode % 64
OwnerWritable(mode) == (mode \div 128) % 2 = 1

C17_Scenario ==
    /\ version[Holder] # version[Starter]
    /\ st[Holder].pc = "terminated"
    /\ st[Starter].pc = "done"

C18_BothStay ==
    \E i, j \in Inst :
        /\ i # j /\ Refused(i) /\ Refused(j)
        /\ version[i] # version[j]
        /\ st[i].canStay /\ st[j].canStay

\* C18: two refused instances of the same version that both conclude
\* canStay = false (a state the protocol can reach)
C18_BothQuit ==
    \E i, j \in Inst :
        /\ i # j /\ Refused(i) /\ Refused(j)
        /\ version[i] = version[j]
        /\ st[i].decided /\ st[j].decided
        /\ ~st[i].canStay /\ ~st[j].canStay

\* the import of the registry script has failed
ImportFailed ==
    \/ reg.execRes = "rejected"
    \/ reg.spawnError
    \/ reg.exited /\ reg.exitCode # 0

\* C19 (as claimed): once the helper process has exited or has failed to
\* spawn, the promise of _executeRegistryScript is settled and the staged
\* script file is deleted.  (No step of the call is enabled in a state where
\* the helper is gone and the promise is pending, so a state violating the
\* predicate violates it for ever.)
C19_AsClaimed ==
    (reg.exited \/ reg.spawnError) =>
        /\ reg.execRes \in {"resolved", "rejected"}
        /\ ~scratch.file

\* C20 (as claimed): on win32 register issues setAsDefaultProtocolClient only
\* after the import has exited with code 0 and opens the settings page only
\* after that; when the import fails the call rejects and neither
\* setAsDefaultProtocolClient nor the settings page is invoked.
C20_AsClaimed ==
    (platform = "win32" /\ reg.op = "register") =>
        /\ (\E k \in 1..Len(log) : log[k] \in {"setAsDefaultProtocolClient", "openExternal"}) =>
              /\ reg.exited /\ reg.exitCode = 0 /\ reg.execRes = "resolved"
              /\ log = <<"spawn", "setAsDefaultProtocolClient", "openExternal">>
        /\ ImportFailed =>
              /\ reg.result = "rejected"
              /\ \A k \in 1..Len(log) :
                    log[k] \notin {"setAsDefaultProtocolClient", "openExternal"}

\* C21 (as claimed): on win32 unregister issues removeAsDefaultProtocolClient
\* before the uninstall script is staged or executed and opens the settings
\* page only after a successful import; when the import fails the call
\* rejects with the removal already issued and not reverted.
C21_AsClaimed ==
    (platform = "win32" /\ reg.op = "unregister") =>
        /\ log # <<>> /\ log[1] = "removeAsDefaultProtocolClient"
        /\ \A k \in 2..Len(log) : log[k] \in {"spawn", "openExternal"}
        /\ (\E k \in 1..Len(log) : log[k] = "openExternal") =>
              /\ reg.exited /\ reg.exitCode = 0 /\ reg.execRes = "resolved"
              /\ log = <<"removeAsDefaultProtocolClient", "spawn", "openExternal">>
        /\ ImportFailed =>
              /\ reg.result = "rejected"
              /\ \A k \in 1..Len(log) :
                    log[k] \notin {"setAsDefaultProtocolClient", "openExternal"}

\* the entry of the last sweep on which rmSync was called last
LastAttempted(sw) == CHOOSE f \in sw.attempted : \A e \in sw.attempted : e <= f

\* C22: in deleteTutanotaTempDir a failure other than ENOENT/EACCES while
\* removing an entry, and a failure other than ENOENT while listing the
\* top-level directory, is thrown to the caller; rmSync is not called on the
\* entries after the failing one and they stay where they are.
C22_SweepFatalErrors ==
    LET sw == tmpOps.sweep IN
    sw.calls > 0 =>
        /\ sw.listCode \notin {"ok", "ENOENT"} =>
              /\ sw.raised = sw.listCode
              /\ sw.attempted = {} /\ sw.removed = {}
        /\ (sw.listCode = "ok" /\ ~(sw.codes \subseteq {"ENOENT", "EACCES"})) =>
              /\ sw.raised \in sw.codes \ {"ENOENT", "EACCES"}
              /\ sw.attempted # {} /\ sw.attempted \subseteq sw.listing
              /\ LastAttempted(sw) \notin sw.removed
              /\ \A e \in sw.listing :
                    e > LastAttempted(sw) =>
                        /\ e \notin sw.attempted /\ e \notin sw.removed
                        /\ e # OwnDir => e \in scratch.stale

C22_Witness ==
    LET sw == tmpOps.sweep IN
    /\ sw.calls > 0 /\ sw.listCode = "ok" /\ sw.raised = "EBUSY"
    /\ sw.removed # {}
    /\ sw.listing \ sw.attempted # {}

\* C23: no operation of the layer deletes the lock file: once it exists it
\* keeps existing; deleteTutanotaTempDir removes only paths below
\* <temp>/tutanota, and the lock file path is not below <temp>/tutanota.
C23_LockFileNeverDeleted ==
    [][/\ lockFile # NoFile => lockFile' # NoFile
       /\ ~IsPrefix(TopLvlTmpDir, GetLockFilePath(tmpOps'))
       /\ \A e \in tmpOps'.sweep.removed :
             /\ IsPrefix(TopLvlTmpDir, TmpSubPath(e, tmpOps'))
             /\ ~IsPrefix(TmpSubPath(e, tmpOps'), GetLockFilePath(tmpOps'))]_vars

C23_Witness ==
    /\ lockFile # NoFile
    /\ tmpOps.sweep.calls > 0
    /\ OwnDir \in tmpOps.sweep.removed
    /\ tmpOps.sweep.removed \ {OwnDir} # {}

====
